---- MODULE Spec2Model ----
(***************************************************************************)
(* Portfolio-Advisor-Chatbot backend (src/backend/main.py): the entity     *)
(* extractor and intent classifier (NLPProcessor), the portfolio store     *)
(* (PortfolioDatabase), the market data gateway (MarketDataAPI), the       *)
(* analytics engine (AnalyticsEngine) and the chat router (chat_endpoint). *)
(*                                                                         *)
(* Python strings are sequences of one-character strings, Python dicts are *)
(* functions over their keys ('k' in d  is  "k" \in DOMAIN d), Python      *)
(* floats are integers in hundredths (the products and sums of two such    *)
(* numbers are integers in ten-thousandths until round(_, 2) brings them   *)
(* back to hundredths).                                                    *)
(***************************************************************************)
EXTENDS Integers, Sequences, FiniteSets, TLC

VARIABLES
    db,        \* portfolio.db: [holdings, transactions, alerts], rows in rowid order
    last,      \* the last API call and what it returned (None before the first)
    words,     \* classifier runs: the words of the text typed so far
    intent,    \* classifier runs: classify_intent's result for that text (None before)
    conns,     \* store runs: per worker, the open connection of an add_holding call
    lockedBy   \* store runs: the worker holding the database write lock (None if free)

vars == <<db, last, words, intent, conns, lockedBy>>

None == "None"

(***************************************************************************)
(* Characters and strings                                                  *)
(***************************************************************************)
LowerAlpha ==
    <<"a", "b", "c", "d", "e", "f", "g", "h", "i", "j", "k", "l", "m",
      "n", "o", "p", "q", "r", "s", "t", "u", "v", "w", "x", "y", "z">>
UpperAlpha ==
    <<"A", "B", "C", "D", "E", "F", "G", "H", "I", "J", "K", "L", "M",
      "N", "O", "P", "Q", "R", "S", "T", "U", "V", "W", "X", "Y", "Z">>
Digits == <<"0", "1", "2", "3", "4", "5", "6", "7", "8", "9">>

Range(s) == {s[i] : i \in DOMAIN s}
UpperSet == Range(UpperAlpha)
LowerSet == Range(LowerAlpha)
DigitSet == Range(Digits)

\* str.lower() and str.upper(), character by character (ASCII)
LowerChar(c) ==
    IF c \in UpperSet THEN LowerAlpha[CHOOSE i \in 1..26 : UpperAlpha[i] = c] ELSE c
UpperChar(c) ==
    IF c \in LowerSet THEN UpperAlpha[CHOOSE i \in 1..26 : LowerAlpha[i] = c] ELSE c
str_lower(text) == [i \in 1..Len(text) |-> LowerChar(text[i])]
str_upper(text) == [i \in 1..Len(text) |-> UpperChar(text[i])]

\* \w of the re module: letters, digits and the underscore
IsWordChar(c) == c \in UpperSet \cup LowerSet \cup DigitSet \cup {"_"}
DigitValue(c) == (CHOOSE i \in 1..10 : Digits[i] = c) - 1

\* the literal lit occurs in text at index i
OccursAt(lit, text, i) ==
    /\ i >= 1
    /\ i + Len(lit) - 1 <= Len(text)
    /\ \A k \in 1..Len(lit) : text[i + k - 1] = lit[k]

\* the least index >= from at which lit occurs in text, 0 if there is none
FindFrom(lit, text, from) ==
    LET hits == {i \in from..(Len(text) - Len(lit) + 1) : OccursAt(lit, text, i)}
    IN  IF hits = {} THEN 0 ELSE CHOOSE i \in hits : \A j \in hits : i <= j

\* Python's  lit in text
Contains(text, lit) == FindFrom(lit, text, 1) # 0

(***************************************************************************)
(* Regular expressions of the intent table: every pattern is a list of     *)
(* literals joined by ".*"; a pattern is the sequence of its literals.     *)
(***************************************************************************)
RECURSIVE MatchFrom(_, _, _, _)
MatchFrom(pieces, k, text, from) ==
    IF k > Len(pieces) THEN TRUE
    ELSE LET at == FindFrom(pieces[k], text, from)
         IN  IF at = 0 THEN FALSE
             ELSE MatchFrom(pieces, k + 1, text, at + Len(pieces[k]))

\* re.search(pattern, text) is not None
re_search(pieces, text) == MatchFrom(pieces, 1, text, 1)

\* show_portfolio: show.*portfolio, my.*holdings, portfolio.*summary, what.*do.*i.*own, current.*portfolio
pat_show_portfolio ==
    <<
       <<<<"s", "h", "o", "w">>, <<"p", "o", "r", "t", "f", "o", "l", "i", "o">>>>,
       <<<<"m", "y">>, <<"h", "o", "l", "d", "i", "n", "g", "s">>>>,
       <<<<"p", "o", "r", "t", "f", "o", "l", "i", "o">>, <<"s", "u", "m", "m", "a", "r", "y">>>>,
       <<<<"w", "h", "a", "t">>, <<"d", "o">>, <<"i">>, <<"o", "w", "n">>>>,
       <<<<"c", "u", "r", "r", "e", "n", "t">>, <<"p", "o", "r", "t", "f", "o", "l", "i", "o">>>>
    >>
\* add_alert: alert.*me.*if, notify.*when, tell.*me.*if, set.*alert, watch.*for
pat_add_alert ==
    <<
       <<<<"a", "l", "e", "r", "t">>, <<"m", "e">>, <<"i", "f">>>>,
       <<<<"n", "o", "t", "i", "f", "y">>, <<"w", "h", "e", "n">>>>,
       <<<<"t", "e", "l", "l">>, <<"m", "e">>, <<"i", "f">>>>,
       <<<<"s", "e", "t">>, <<"a", "l", "e", "r", "t">>>>,
       <<<<"w", "a", "t", "c", "h">>, <<"f", "o", "r">>>>
    >>
\* compare_stocks: compare.*vs, compare.*and, .*vs.*, difference.*between, which.*better
pat_compare_stocks ==
    <<
       <<<<"c", "o", "m", "p", "a", "r", "e">>, <<"v", "s">>>>,
       <<<<"c", "o", "m", "p", "a", "r", "e">>, <<"a", "n", "d">>>>,
       <<<<>>, <<"v", "s">>, <<>>>>,
       <<<<"d", "i", "f", "f", "e", "r", "e", "n", "c", "e">>, <<"b", "e", "t", "w", "e", "e", "n">>>>,
       <<<<"w", "h", "i", "c", "h">>, <<"b", "e", "t", "t", "e", "r">>>>
    >>
\* simulate: what.*if.*buy, simulate.*buying, if.*i.*bought, scenario.*where, what.*would.*happen
pat_simulate ==
    <<
       <<<<"w", "h", "a", "t">>, <<"i", "f">>, <<"b", "u", "y">>>>,
       <<<<"s", "i", "m", "u", "l", "a", "t", "e">>, <<"b", "u", "y", "i", "n", "g">>>>,
       <<<<"i", "f">>, <<"i">>, <<"b", "o", "u", "g", "h", "t">>>>,
       <<<<"s", "c", "e", "n", "a", "r", "i", "o">>, <<"w", "h", "e", "r", "e">>>>,
       <<<<"w", "h", "a", "t">>, <<"w", "o", "u", "l", "d">>, <<"h", "a", "p", "p", "e", "n">>>>
    >>
\* add_holding: i.*bought, add.*to.*portfolio, i.*own, purchased.*shares, bought.*shares
pat_add_holding ==
    <<
       <<<<"i">>, <<"b", "o", "u", "g", "h", "t">>>>,
       <<<<"a", "d", "d">>, <<"t", "o">>, <<"p", "o", "r", "t", "f", "o", "l", "i", "o">>>>,
       <<<<"i">>, <<"o", "w", "n">>>>,
       <<<<"p", "u", "r", "c", "h", "a", "s", "e", "d">>, <<"s", "h", "a", "r", "e", "s">>>>,
       <<<<"b", "o", "u", "g", "h", "t">>, <<"s", "h", "a", "r", "e", "s">>>>
    >>
\* stock_price: price.*of, current.*price, how.*much.*is, what.*is.*trading, .*price.*now
pat_stock_price ==
    <<
       <<<<"p", "r", "i", "c", "e">>, <<"o", "f">>>>,
       <<<<"c", "u", "r", "r", "e", "n", "t">>, <<"p", "r", "i", "c", "e">>>>,
       <<<<"h", "o", "w">>, <<"m", "u", "c", "h">>, <<"i", "s">>>>,
       <<<<"w", "h", "a", "t">>, <<"i", "s">>, <<"t", "r", "a", "d", "i", "n", "g">>>>,
       <<<<>>, <<"p", "r", "i", "c", "e">>, <<"n", "o", "w">>>>
    >>

\* self.intent_patterns, in the insertion order the dict iterates in
intent_patterns ==
    << [intent |-> "show_portfolio", patterns |-> pat_show_portfolio],
       [intent |-> "add_alert",      patterns |-> pat_add_alert],
       [intent |-> "compare_stocks", patterns |-> pat_compare_stocks],
       [intent |-> "simulate",       patterns |-> pat_simulate],
       [intent |-> "add_holding",    patterns |-> pat_add_holding],
       [intent |-> "stock_price",    patterns |-> pat_stock_price] >>

(***************************************************************************)
(* NLPProcessor.extract_entities                                           *)
(***************************************************************************)
\* a word boundary \b lies before index i of text (i = Len(text)+1: at the end)
WordBoundary(text, i) ==
    LET before == i > 1 /\ IsWordChar(text[i - 1])
        after  == i <= Len(text) /\ IsWordChar(text[i])
    IN  before # after

\* the length of the match of \b[A-Z]{2,4}\b starting at index i, 0 if none:
\* the greedy {2,4} tries 4 letters first and backs off to 3, then 2
SymbolAt(text, i) ==
    LET ok(n) == /\ i + n - 1 <= Len(text)
                 /\ \A k \in 0..(n - 1) : text[i + k] \in UpperSet
                 /\ WordBoundary(text, i + n)
    IN  IF ~WordBoundary(text, i) THEN 0
        ELSE IF ok(4) THEN 4
        ELSE IF ok(3) THEN 3
        ELSE IF ok(2) THEN 2
        ELSE 0

\* re.findall(r'\b[A-Z]{2,4}\b', text) from index i on: leftmost, non-overlapping
RECURSIVE FindSymbols(_, _)
FindSymbols(text, i) ==
    IF i > Len(text) THEN <<>>
    ELSE LET n == SymbolAt(text, i)
         IN  IF n = 0 THEN FindSymbols(text, i + 1)
             ELSE <<SubSeq(text, i, i + n - 1)>> \o FindSymbols(text, i + n)

\* the number of digits of text from index i on
RECURSIVE DigitRun(_, _)
DigitRun(text, i) ==
    IF i <= Len(text) /\ text[i] \in DigitSet THEN 1 + DigitRun(text, i + 1) ELSE 0

\* the length of the match of \d+\.?\d* starting at index i, 0 if none
NumberAt(text, i) ==
    LET n == DigitRun(text, i)
        dot == IF i + n <= Len(text) /\ text[i + n] = "." THEN 1 ELSE 0
    IN  IF n = 0 THEN 0 ELSE n + dot + DigitRun(text, i + n + dot)

\* the value of a string of digits
RECURSIVE DigitsValue(_)
DigitsValue(s) ==
    IF s = <<>> THEN 0
    ELSE 10 * DigitsValue(SubSeq(s, 1, Len(s) - 1)) + DigitValue(s[Len(s)])

\* float(n) for a match n of \d+\.?\d*, in hundredths (fraction digits after
\* the second are below the unit of the model)
float(n) ==
    LET ip   == DigitRun(n, 1)
        frac == SubSeq(n, ip + 2, Len(n))
        f2   == SubSeq(frac \o <<"0", "0">>, 1, 2)
    IN  100 * DigitsValue(SubSeq(n, 1, ip)) + DigitsValue(f2)

\* re.findall(r'\d+\.?\d*', text) from index i on, each match turned into a float
RECURSIVE FindNumbers(_, _)
FindNumbers(text, i) ==
    IF i > Len(text) THEN <<>>
    ELSE LET n == NumberAt(text, i)
         IN  IF n = 0 THEN FindNumbers(text, i + 1)
             ELSE <<float(SubSeq(text, i, i + n - 1))>> \o FindNumbers(text, i + n)

kw_above == <<<<"a","b","o","v","e">>, <<"o","v","e","r">>, <<"h","i","g","h","e","r">>>>
kw_below == <<<<"b","e","l","o","w">>, <<"u","n","d","e","r">>, <<"l","o","w","e","r">>>>

\* the empty dict
EmptyDict == [k \in {} |-> None]

\* an extractor that sets the symbols and numbers keys whatever it found
extract_entities_all_keys(text) ==
    LET lo == str_lower(text)
        any(kws) == \E j \in DOMAIN kws : Contains(lo, kws[j])
    IN  ("symbols" :> FindSymbols(str_upper(text), 1))
        @@ ("numbers" :> FindNumbers(text, 1))
        @@ (IF any(kw_above) THEN "condition" :> "above"
            ELSE IF any(kw_below) THEN "condition" :> "below"
            ELSE EmptyDict)

extract_entities(text) ==
    LET symbols == FindSymbols(str_upper(text), 1)
        numbers == FindNumbers(text, 1)
        lo      == str_lower(text)
        any(kws) == \E j \in DOMAIN kws : Contains(lo, kws[j])
    IN  (IF symbols # <<>> THEN "symbols" :> symbols ELSE EmptyDict)
        @@ (IF numbers # <<>> THEN "numbers" :> numbers ELSE EmptyDict)
        @@ (IF any(kw_above) THEN "condition" :> "above"
            ELSE IF any(kw_below) THEN "condition" :> "below"
            ELSE EmptyDict)

(***************************************************************************)
(* NLPProcessor.classify_intent                                            *)
(***************************************************************************)
MatchConfidence == 8       \* confidence=0.8, in tenths
DefaultConfidence == 5     \* confidence=0.5, in tenths

Intent(action, entities, confidence) ==
    [action |-> action, entities |-> entities, confidence |-> confidence]

\* a classifier that goes on after a match: the last matching pattern of
\* the table decides, not the first
RECURSIVE ClassifyFrom_last_match(_, _, _)
ClassifyFrom_last_match(text, t, p) ==
    IF t > Len(intent_patterns)
    THEN Intent("stock_price", extract_entities(text), DefaultConfidence)
    ELSE IF p > Len(intent_patterns[t].patterns)
    THEN ClassifyFrom_last_match(text, t + 1, 1)
    ELSE IF /\ re_search(intent_patterns[t].patterns[p], str_lower(text))
            /\ ClassifyFrom_last_match(text, t, p + 1).confidence = DefaultConfidence
    THEN Intent(intent_patterns[t].intent, extract_entities(text), MatchConfidence)
    ELSE ClassifyFrom_last_match(text, t, p + 1)

\* the two nested for loops, from pattern p of table entry t on
RECURSIVE ClassifyFrom(_, _, _)
ClassifyFrom(text, t, p) ==
    IF t > Len(intent_patterns)
    THEN Intent("stock_price", extract_entities(text), DefaultConfidence)
    ELSE IF p > Len(intent_patterns[t].patterns)
    THEN ClassifyFrom(text, t + 1, 1)
    ELSE IF re_search(intent_patterns[t].patterns[p], str_lower(text))
    THEN Intent(intent_patterns[t].intent, extract_entities(text), MatchConfidence)
    ELSE ClassifyFrom(text, t, p + 1)

classify_intent(text) == ClassifyFrom(text, 1, 1)

(***************************************************************************)
(* Texts: words joined by single spaces                                    *)
(***************************************************************************)
w_I == <<"I">>
w_i == <<"i">>
w_bought == <<"b", "o", "u", "g", "h", "t">>
w_10 == <<"1", "0">>
w_5 == <<"5">>
w_AAPL == <<"A", "A", "P", "L">>
w_TSLA == <<"T", "S", "L", "A">>
w_at == <<"a", "t">>
w_150 == <<"1", "5", "0">>
w_120 == <<"1", "2", "0">>
w_alert == <<"a", "l", "e", "r", "t">>
w_me == <<"m", "e">>
w_if == <<"i", "f">>
w_goes == <<"g", "o", "e", "s">>
w_above == <<"a", "b", "o", "v", "e">>
w_200 == <<"2", "0", "0">>
w_show == <<"s", "h", "o", "w">>
w_my == <<"m", "y">>
w_portfolio == <<"p", "o", "r", "t", "f", "o", "l", "i", "o">>
w_vs == <<"v", "s">>
w_what == <<"w", "h", "a", "t">>
w_buy == <<"b", "u", "y">>
w_price == <<"p", "r", "i", "c", "e">>
w_of == <<"o", "f">>
w_xyz == <<"x", "y", "z">>
w_x == <<"x">>
w_0p3 == <<"0", ".", "3">>

RECURSIVE Join(_)
Join(ws) ==
    IF ws = <<>> THEN <<>>
    ELSE IF Len(ws) = 1 THEN ws[1]
    ELSE ws[1] \o <<" ">> \o Join(Tail(ws))

(***************************************************************************)
(* Arithmetic on floats: a number read from a message or a price is an     *)
(* integer in hundredths, a product or sum of products an integer in       *)
(* ten-thousandths; round(x, 2) rounds the second to the first.            *)
(***************************************************************************)
Abs(x) == IF x < 0 THEN -x ELSE x

\* q + r / d rounded to the nearest integer, ties to even (0 <= r < d)
HalfEven(q, r, d) ==
    IF 2 * r < d THEN q
    ELSE IF 2 * r > d THEN q + 1
    ELSE IF q % 2 = 0 THEN q ELSE q + 1

\* n / d rounded to the nearest integer, ties to even (d > 0)
RoundDiv(n, d) ==
    IF n < 0 THEN -HalfEven((-n) \div d, (-n) % d, d)
    ELSE HalfEven(n \div d, n % d, d)

\* round(x, 2), x in ten-thousandths, the result in hundredths
Round2(x) == RoundDiv(x, 100)

\* one more decimal digit of a long division by d
LongDivStep(p, d) == [q |-> 10 * p.q + (10 * p.r) \div d, r |-> (10 * p.r) % d]

\* the long division of n * 10^k by d: [q, r] with n * 10^k = q * d + r
RECURSIVE LongDiv(_, _, _)
LongDiv(n, d, k) ==
    IF k = 0 THEN [q |-> n \div d, r |-> n % d]
    ELSE LongDivStep(LongDiv(n, d, k - 1), d)

RoundQuotient(p, d) == HalfEven(p.q, p.r, d)

\* round((pl / cost) * 100, 2) in hundredths of a percent (cost > 0)
Percent(pl, cost) ==
    IF pl < 0 THEN -RoundQuotient(LongDiv(-pl, cost, 4), cost)
    ELSE RoundQuotient(LongDiv(pl, cost, 4), cost)

(***************************************************************************)
(* PortfolioDatabase: the tables of portfolio.db. The rows of a table are  *)
(* kept in rowid order; the timestamp columns (buy_date, date,             *)
(* created_date) are left out. buys and alertCalls are history: the        *)
(* add_holding and add_alert calls that returned, in call order.           *)
(***************************************************************************)
EmptyDb ==
    [holdings |-> <<>>, transactions |-> <<>>, alerts |-> <<>>,
     buys |-> <<>>, alertCalls |-> <<>>]

\* the rows of s that satisfy none of the (user_id, symbol) conflict
RECURSIVE WithoutKey(_, _, _)
WithoutKey(rows, user_id, symbol) ==
    IF rows = <<>> THEN <<>>
    ELSE IF rows[1].user_id = user_id /\ rows[1].symbol = symbol
    THEN WithoutKey(Tail(rows), user_id, symbol)
    ELSE <<rows[1]>> \o WithoutKey(Tail(rows), user_id, symbol)

\* INSERT OR REPLACE INTO holdings under UNIQUE(symbol): the row of any
\* user that holds the symbol is deleted
insert_or_replace_holding_by_symbol(d, user_id, symbol, quantity, buy_price) ==
    [d EXCEPT !.holdings =
        Append(SelectSeq(d.holdings, LAMBDA h : h.symbol # symbol),
               [user_id |-> user_id, symbol |-> symbol,
                quantity |-> quantity, buy_price |-> buy_price])]

\* INSERT OR REPLACE INTO holdings under UNIQUE(user_id, symbol): the row in
\* conflict is deleted, the new row gets a new rowid
insert_or_replace_holding(d, user_id, symbol, quantity, buy_price) ==
    [d EXCEPT !.holdings =
        Append(WithoutKey(d.holdings, user_id, symbol),
               [user_id |-> user_id, symbol |-> symbol,
                quantity |-> quantity, buy_price |-> buy_price])]

\* INSERT INTO transactions ... 'BUY'
insert_transaction(d, user_id, symbol, quantity, buy_price) ==
    [d EXCEPT !.transactions =
        Append(d.transactions,
               [user_id |-> user_id, symbol |-> symbol, action |-> "BUY",
                quantity |-> quantity, price |-> buy_price])]

\* the call is added to the history
LogBuy(d, user_id, symbol, quantity, buy_price) ==
    [d EXCEPT !.buys =
        Append(d.buys, [user_id |-> user_id, symbol |-> symbol,
                        quantity |-> quantity, buy_price |-> buy_price])]

\* add_holding with a plain INSERT into a table without UNIQUE(user_id,
\* symbol): a second buy of a symbol adds a second holding row
add_holding_plain_insert(d, user_id, symbol, quantity, buy_price) ==
    LogBuy(insert_transaction(
               [d EXCEPT !.holdings =
                   Append(d.holdings,
                          [user_id |-> user_id, symbol |-> symbol,
                           quantity |-> quantity, buy_price |-> buy_price])],
               user_id, symbol, quantity, buy_price),
           user_id, symbol, quantity, buy_price)

add_holding(d, user_id, symbol, quantity, buy_price) ==
    LogBuy(insert_transaction(
               insert_or_replace_holding(d, user_id, symbol, quantity, buy_price),
               user_id, symbol, quantity, buy_price),
           user_id, symbol, quantity, buy_price)

RECURSIVE SelectRows(_, _)
SelectRows(rows, user_id) ==
    IF rows = <<>> THEN <<>>
    ELSE IF rows[1].user_id = user_id
    THEN <<rows[1]>> \o SelectRows(Tail(rows), user_id)
    ELSE SelectRows(Tail(rows), user_id)

\* the dicts get_portfolio builds of the rows fetched
HoldingDicts(rows) ==
    [i \in 1..Len(rows) |->
        [symbol |-> rows[i].symbol, quantity |-> rows[i].quantity,
         buy_price |-> rows[i].buy_price]]

get_portfolio(d, user_id) == HoldingDicts(SelectRows(d.holdings, user_id))

\* add_alert on a table with UNIQUE(user_id, symbol, condition, price) and
\* INSERT OR REPLACE: an alert asked for twice is stored once
add_alert_unique(d, user_id, symbol, condition, price) ==
    [d EXCEPT
        !.alerts = Append(
            SelectSeq(d.alerts, LAMBDA a :
                a # [user_id |-> user_id, symbol |-> symbol,
                     condition |-> condition, price |-> price, active |-> 1]),
            [user_id |-> user_id, symbol |-> symbol, condition |-> condition,
             price |-> price, active |-> 1]),
        !.alertCalls = Append(d.alertCalls,
            [user_id |-> user_id, symbol |-> symbol, condition |-> condition,
             price |-> price])]

\* PortfolioDatabase.add_alert
add_alert(d, user_id, symbol, condition, price) ==
    [d EXCEPT
        !.alerts = Append(d.alerts,
            [user_id |-> user_id, symbol |-> symbol, condition |-> condition,
             price |-> price, active |-> 1]),
        !.alertCalls = Append(d.alertCalls,
            [user_id |-> user_id, symbol |-> symbol, condition |-> condition,
             price |-> price])]

RECURSIVE SelectActive(_, _)
SelectActive(rows, user_id) ==
    IF rows = <<>> THEN <<>>
    ELSE IF rows[1].user_id = user_id /\ rows[1].active = 1
    THEN <<rows[1]>> \o SelectActive(Tail(rows), user_id)
    ELSE SelectActive(Tail(rows), user_id)

\* the dicts get_alerts builds of the rows fetched; active is bool(row[3])
AlertDicts(rows) ==
    [i \in 1..Len(rows) |->
        [symbol |-> rows[i].symbol, condition |-> rows[i].condition,
         price |-> rows[i].price, active |-> rows[i].active # 0]]

get_alerts(d, user_id) == AlertDicts(SelectActive(d.alerts, user_id))

\* the sqlite3 error a store call raises when the database cannot be used
StoreFault == "sqlite3.OperationalError"

(***************************************************************************)
(* MarketDataAPI.get_stock_info. What yfinance answers for the symbol is   *)
(* the input q: bars (the 1d history, close and open in ten-thousandths,   *)
(* with the info dict), empty (no history) or raise (an exception).        *)
(***************************************************************************)
DictGet(dict, key, default) == IF key \in DOMAIN dict THEN dict[key] ELSE default

get_stock_info(symbol, q) ==
    IF q.kind = "raise"
    THEN [error |-> <<"Error fetching data for ", symbol, ": ", q.exception>>]
    ELSE IF q.kind = "empty"
    THEN [error |-> <<"No data found for ", symbol>>]
    ELSE [symbol        |-> symbol,
          name          |-> DictGet(q.info, "shortName", "N/A"),
          current_price |-> Round2(q.close),
          currency      |-> DictGet(q.info, "currency", "USD"),
          sector        |-> DictGet(q.info, "sector", "N/A"),
          market_cap    |-> DictGet(q.info, "marketCap", 0),
          pe_ratio      |-> DictGet(q.info, "trailingPE", "N/A"),
          day_change    |-> Round2(q.close - q.open)]

(***************************************************************************)
(* AnalyticsEngine. Every method gets the store d and the provider's       *)
(* answers (market: symbol -> answer), and returns the store it leaves     *)
(* with its result (ret) or the exception it raises (exc); up says whether *)
(* the store can be used during the call.                                  *)
(***************************************************************************)
Return(d, v) == [db |-> d, ret |-> v]
Raise(d, e) == [db |-> d, exc |-> e]
Raised(r) == "exc" \in DOMAIN r

\* the body of the for loop for a holding whose quote is stock_info
PricedHolding(holding, stock_info, current_value, cost_basis, acc) ==
    [total_value |-> acc.total_value + current_value,
     total_cost |-> acc.total_cost + cost_basis,
     portfolio_details |-> Append(acc.portfolio_details,
        [symbol |-> holding.symbol,
         name |-> stock_info.name,
         quantity |-> holding.quantity,
         buy_price |-> holding.buy_price,
         current_price |-> stock_info.current_price,
         current_value |-> Round2(current_value),
         cost_basis |-> Round2(cost_basis),
         profit_loss |-> Round2(current_value - cost_basis),
         profit_loss_pct |->
            IF cost_basis > 0 THEN Percent(current_value - cost_basis, cost_basis)
            ELSE 0])]

\* an iteration that adds the cost of a holding whose lookup failed to
\* total_cost before skipping it
PortfolioStep_counts_unpriced(holding, stock_info, acc) ==
    IF "error" \in DOMAIN stock_info
    THEN [acc EXCEPT !.total_cost = @ + holding.quantity * holding.buy_price]
    ELSE PricedHolding(holding, stock_info,
                       holding.quantity * stock_info.current_price,
                       holding.quantity * holding.buy_price, acc)

\* one iteration of the for loop: a holding whose lookup failed is skipped
PortfolioStep(holding, stock_info, acc) ==
    IF "error" \in DOMAIN stock_info THEN acc
    ELSE PricedHolding(holding, stock_info,
                       holding.quantity * stock_info.current_price,
                       holding.quantity * holding.buy_price, acc)

\* the for loop of calculate_portfolio_value from holding i on
RECURSIVE PortfolioLoop(_, _, _, _)
PortfolioLoop(holdings, i, acc, market) ==
    IF i > Len(holdings) THEN acc
    ELSE PortfolioLoop(holdings, i + 1,
            PortfolioStep(holdings[i],
                          get_stock_info(holdings[i].symbol, market[holdings[i].symbol]),
                          acc),
            market)

\* the return statement of calculate_portfolio_value
PortfolioReport(d, acc) ==
    Return(d,
      [total_value |-> Round2(acc.total_value),
       total_cost |-> Round2(acc.total_cost),
       total_profit_loss |-> Round2(acc.total_value - acc.total_cost),
       total_profit_loss_pct |->
          IF acc.total_cost > 0
          THEN Percent(acc.total_value - acc.total_cost, acc.total_cost)
          ELSE 0,
       holdings |-> acc.portfolio_details])

\* calculate_portfolio_value once get_portfolio has returned holdings
ValueHoldings(d, holdings, market) ==
    IF holdings = <<>>
    THEN Return(d, [message |-> "No holdings found in portfolio"])
    ELSE PortfolioReport(d,
            PortfolioLoop(holdings, 1,
                [total_value |-> 0, total_cost |-> 0, portfolio_details |-> <<>>],
                market))

calculate_portfolio_value(d, user_id, market, up) ==
    IF ~up THEN Raise(d, StoreFault)
    ELSE ValueHoldings(d, get_portfolio(d, user_id), market)

\* one iteration of the for loop of compare_stocks
CompareStep(symbol, stock_info, comparison) ==
    IF "error" \notin DOMAIN stock_info
    THEN (symbol :> stock_info) @@ comparison
    ELSE comparison

\* the dict the for loop of compare_stocks builds from symbol i of the list on
RECURSIVE CompareLoop(_, _, _, _)
CompareLoop(symbols, i, comparison, market) ==
    IF i > Len(symbols) THEN comparison
    ELSE CompareLoop(symbols, i + 1,
            CompareStep(symbols[i], get_stock_info(symbols[i], market[symbols[i]]),
                        comparison),
            market)

compare_stocks(d, symbols, market) ==
    Return(d, [comparison |-> CompareLoop(symbols, 1, EmptyDict, market)])

\* the return statement of simulate_purchase
SimulationReport(symbol, quantity, stock_info, current_portfolio) ==
    IF Raised(current_portfolio) THEN current_portfolio
    ELSE Return(current_portfolio.db,
           [simulation |->
              [symbol |-> symbol,
               quantity |-> quantity,
               price_per_share |-> stock_info.current_price,
               total_cost |-> Round2(quantity * stock_info.current_price),
               current_portfolio_value |->
                   DictGet(current_portfolio.ret, "total_value", 0),
               new_portfolio_value |->
                   Round2(100 * DictGet(current_portfolio.ret, "total_value", 0)
                          + quantity * stock_info.current_price)]])

\* simulate_purchase once the quote stock_info of its symbol is there
SimulateQuoted(d, user_id, symbol, quantity, stock_info, market, up) ==
    IF "error" \in DOMAIN stock_info THEN Return(d, stock_info)
    ELSE SimulationReport(symbol, quantity, stock_info,
                          calculate_portfolio_value(d, user_id, market, up))

\* a simulation that records the hypothetical purchase as a holding
simulate_purchase_recording(d, user_id, symbol, quantity, market, up) ==
    SimulateQuoted(add_holding(d, user_id, symbol, quantity, 0),
                   user_id, symbol, quantity,
                   get_stock_info(symbol, market[symbol]), market, up)

simulate_purchase(d, user_id, symbol, quantity, market, up) ==
    SimulateQuoted(d, user_id, symbol, quantity,
                   get_stock_info(symbol, market[symbol]), market, up)

(***************************************************************************)
(* chat_endpoint: the router                                               *)
(***************************************************************************)
\* the try block: the branch of intent it for user_id
TryBlock(d, user_id, it, market, up) ==
    LET e == it.entities
        has(k) == k \in DOMAIN e
    IN
    IF it.action = "show_portfolio"
    THEN calculate_portfolio_value(d, user_id, market, up)
    ELSE IF it.action = "add_alert"
    THEN IF has("symbols") /\ has("numbers") /\ has("condition")
         THEN LET symbol == e.symbols[1]
                  price == e.numbers[1]
                  condition == e.condition
              IN  IF ~up THEN Raise(d, StoreFault)
                  ELSE Return(add_alert(d, user_id, symbol, condition, price),
                         [message |-> <<"Alert set for ", symbol,
                                        " when price goes ", condition, " $", price>>])
         ELSE Return(d, [message |->
                 "Please specify symbol, price, and condition (above/below)"])
    ELSE IF it.action = "compare_stocks"
    THEN IF has("symbols") /\ Len(e.symbols) >= 2
         THEN compare_stocks(d, SubSeq(e.symbols, 1, 2), market)
         ELSE Return(d, [message |->
                 "Please specify at least 2 stock symbols to compare"])
    ELSE IF it.action = "simulate"
    THEN IF has("symbols") /\ has("numbers")
         THEN simulate_purchase(d, user_id, e.symbols[1], e.numbers[1], market, up)
         ELSE Return(d, [message |->
                 "Please specify symbol and quantity for simulation"])
    ELSE IF it.action = "add_holding"
    THEN IF ~has("symbols")
         THEN Return(d, [message |->
                 "Please specify symbol, quantity, and purchase price"])
         ELSE IF ~has("numbers")    \* intent.entities['numbers'] of a missing key
         THEN Raise(d, "'numbers'")
         ELSE IF Len(e.numbers) >= 2
         THEN LET symbol == e.symbols[1]
                  quantity == e.numbers[1]
                  price == e.numbers[2]
              IN  IF ~up THEN Raise(d, StoreFault)
                  ELSE Return(add_holding(d, user_id, symbol, quantity, price),
                         [message |-> <<"Added ", quantity, " shares of ", symbol,
                                        " at $", price, " to portfolio">>])
         ELSE Return(d, [message |->
                 "Please specify symbol, quantity, and purchase price"])
    ELSE IF it.action = "stock_price"
    THEN IF has("symbols")
         THEN Return(d, [stock_info |->
                 get_stock_info(e.symbols[1], market[e.symbols[1]])])
         ELSE Return(d, [message |-> "Please specify a stock symbol"])
    ELSE Return(d, [message |-> "I didn't understand that command. Try asking about your portfolio, setting alerts, or comparing stocks."])

\* a handler without the except clause of line 457: the exception of the
\* branch leaves chat_endpoint instead of becoming response.error
Envelope_no_except(it, r) ==
    [db |-> r.db,
     caught |-> None,
     ret |-> [intent |-> [action |-> it.action, entities |-> it.entities,
                          confidence |-> it.confidence],
              response |-> IF Raised(r)
                           THEN [propagated |-> r.exc]
                           ELSE r.ret]]

\* the except clause and the envelope; caught is the exception the clause caught
Envelope(it, r) ==
    [db |-> r.db,
     caught |-> IF Raised(r) THEN r.exc ELSE None,
     ret |-> [intent |-> [action |-> it.action, entities |-> it.entities,
                          confidence |-> it.confidence],
              response |-> IF Raised(r)
                           THEN [error |-> <<"An error occurred: ", r.exc>>]
                           ELSE r.ret]]

chat_endpoint(d, user_input, it, market, up) ==
    Envelope(it, TryBlock(d, user_input.user_id, it, market, up))

(***************************************************************************)
(* The API: /chat and the three read-only routes, called one at a time     *)
(* (the handlers are coroutines that never await: one runs to its end      *)
(* before the event loop starts the next).                                 *)
(***************************************************************************)
MaxRows == 2       \* at most this many rows of transactions and alerts together

Users == {"ann", "bob"}

Messages ==
    { Join(<<w_I, w_bought, w_10, w_AAPL, w_at, w_150>>),
      Join(<<w_I, w_bought, w_5, w_AAPL, w_at, w_120>>),
      Join(<<w_I, w_bought, w_0p3, w_TSLA, w_at, w_120>>),
      Join(<<w_I, w_bought, w_AAPL>>),
      Join(<<w_I, w_bought, w_10, w_AAPL>>),
      Join(<<w_i, w_bought>>),
      Join(<<w_alert, w_me, w_if, w_AAPL, w_goes, w_above, w_200>>),
      Join(<<w_alert, w_me, w_if>>),
      Join(<<w_show, w_my, w_portfolio>>),
      Join(<<w_AAPL, w_vs, w_TSLA>>),
      Join(<<w_vs>>),
      Join(<<w_TSLA, w_what, w_if, w_i, w_buy, w_10>>),
      Join(<<w_what, w_if, w_i, w_buy>>),
      Join(<<w_price, w_of, w_TSLA>>),
      Join(<<w_xyz>>),
      Join(<<w_200>>) }

\* nlp.classify_intent(user_input.message), computed once per message
Classified == [m \in Messages |-> classify_intent(m)]

\* what yfinance can answer for a symbol
ProviderAnswers ==
    { [kind |-> "bars", close |-> 999949, open |-> 980000,
       info |-> [shortName |-> "Acme Corp"]],
      [kind |-> "empty"],
      [kind |-> "raise", exception |-> "ConnectionError"] }

\* the symbols of the holdings of user_id
HeldSymbols(d, user_id) ==
    {d.holdings[i].symbol : i \in {j \in DOMAIN d.holdings : d.holdings[j].user_id = user_id}}

\* the symbols a /chat call can ask the gateway about
AskedSymbols(d, user_id, it, up) ==
    LET e == it.entities
        held == IF up THEN HeldSymbols(d, user_id) ELSE {}
    IN  IF it.action = "show_portfolio" THEN held
        ELSE IF it.action = "compare_stocks" /\ "symbols" \in DOMAIN e /\ Len(e.symbols) >= 2
        THEN {e.symbols[1], e.symbols[2]}
        ELSE IF it.action = "simulate" /\ "symbols" \in DOMAIN e /\ "numbers" \in DOMAIN e
        THEN {e.symbols[1]} \cup held
        ELSE IF it.action = "stock_price" /\ "symbols" \in DOMAIN e
        THEN {e.symbols[1]}
        ELSE {}

\* whether the store can fail a /chat call: only the branches that call it
StoreStates(it) ==
    LET e == it.entities
        has(k) == k \in DOMAIN e
    IN  IF \/ it.action = "show_portfolio"
           \/ it.action = "add_alert" /\ has("symbols") /\ has("numbers") /\ has("condition")
           \/ it.action = "simulate" /\ has("symbols") /\ has("numbers")
           \/ it.action = "add_holding" /\ has("symbols") /\ has("numbers")
                /\ Len(e.numbers) >= 2
        THEN BOOLEAN
        ELSE {TRUE}

NoCall == [op |-> None]

Init ==
    /\ db = EmptyDb
    /\ last = NoCall
    /\ words = <<>>
    /\ intent = [action |-> None]
    /\ conns = [w \in {"w1", "w2"} |-> [pc |-> "idle", died |-> FALSE]]
    /\ lockedBy = None

Bounded(d) == Len(d.transactions) + Len(d.alerts) <= MaxRows

\* POST /chat: r is what chat_endpoint leaves and returns
ChatReturns(user_id, message, up, market, r) ==
    /\ Bounded(r.db)
    /\ db' = r.db
    /\ last' = [op |-> "chat", user_id |-> user_id, message |-> message,
                up |-> up, market |-> market, before |-> db,
                caught |-> r.caught, ret |-> r.ret]
    /\ UNCHANGED <<words, intent, conns, lockedBy>>

Chat ==
    \E user_id \in Users, message \in Messages :
      \E up \in StoreStates(Classified[message]) :
      \E market \in [AskedSymbols(db, user_id, Classified[message], up)
                        -> ProviderAnswers] :
        ChatReturns(user_id, message, up, market,
            chat_endpoint(db, [message |-> message, user_id |-> user_id],
                          Classified[message], market, up))

\* a read-only route returns (or raises) r
QueryReturns(op, arg, up, market, r) ==
    /\ db' = r.db
    /\ last' = [op |-> op, arg |-> arg, up |-> up, market |-> market,
                before |-> db, ret |-> r]
    /\ UNCHANGED <<words, intent, conns, lockedBy>>

\* GET /portfolio/{user_id}
GetPortfolio ==
    \E user_id \in Users, up \in BOOLEAN :
      \E market \in [(IF up THEN HeldSymbols(db, user_id) ELSE {}) -> ProviderAnswers] :
        QueryReturns("get_portfolio", user_id, up, market,
                     calculate_portfolio_value(db, user_id, market, up))

\* GET /alerts/{user_id}
GetAlerts ==
    \E user_id \in Users, up \in BOOLEAN :
      QueryReturns("get_alerts", user_id, up, EmptyDict,
                   IF up THEN Return(db, [alerts |-> get_alerts(db, user_id)])
                   ELSE Raise(db, StoreFault))

\* GET /stock/{symbol}
GetStockInfo ==
    \E symbol \in {w_AAPL, w_TSLA}, q \in ProviderAnswers :
      QueryReturns("get_stock_info", symbol, TRUE, symbol :> q,
                   Return(db, get_stock_info(symbol, q)))

Next == Chat \/ GetPortfolio \/ GetAlerts \/ GetStockInfo

Spec == Init /\ [][Next]_vars

(***************************************************************************)
(* PortfolioDatabase.add_holding statement by statement, called by several *)
(* workers on one portfolio.db, any of which can die at any point. A       *)
(* connection opens a transaction at its first INSERT (taking the write    *)
(* lock of the database file) and its rows reach the file at commit().     *)
(***************************************************************************)
MaxCommits == 2    \* at most this many committed add_holding calls

Workers == {"w1", "w2"}

BuyArgs ==
    { [user_id |-> "ann", symbol |-> w_AAPL, quantity |-> 1000, buy_price |-> 15000],
      [user_id |-> "ann", symbol |-> w_AAPL, quantity |-> 500, buy_price |-> 12000],
      [user_id |-> "bob", symbol |-> w_TSLA, quantity |-> 30, buy_price |-> 12000] }

\* no add_holding call in progress; died says whether one died with rows written
Idle(died) == [pc |-> "idle", died |-> died]

\* a connection in autocommit mode: every statement reaches the file at once
AfterStatement_autocommit(d, view) == view

\* the database file after a statement of an open transaction left the
\* connection seeing view: the rows stay in the transaction
AfterStatement(d, view) == d

\* the database file after commit()
AfterCommit(d, view) == view

InitStore ==
    /\ db = EmptyDb
    /\ last = NoCall
    /\ words = <<>>
    /\ intent = [action |-> None]
    /\ conns = [w \in Workers |-> Idle(FALSE)]
    /\ lockedBy = None

\* conn = sqlite3.connect(self.db_path); cursor = conn.cursor()
Connect(w) ==
    /\ conns[w].pc = "idle"
    /\ Len(db.transactions) < MaxCommits
    /\ \E a \in BuyArgs :
         conns' = [conns EXCEPT ![w] =
                     [pc |-> "connected", args |-> a, died |-> conns[w].died]]
    /\ UNCHANGED <<db, lockedBy, last, words, intent>>

\* cursor.execute(INSERT OR REPLACE INTO holdings ...): begins the transaction
InsertHolding(w) ==
    /\ conns[w].pc = "connected"
    /\ lockedBy = None
    /\ lockedBy' = w
    /\ conns' = [conns EXCEPT ![w] =
          [pc |-> "held", args |-> conns[w].args, died |-> conns[w].died,
           view |-> insert_or_replace_holding(db, conns[w].args.user_id,
                        conns[w].args.symbol, conns[w].args.quantity,
                        conns[w].args.buy_price)]]
    /\ db' = AfterStatement(db, conns'[w].view)
    /\ UNCHANGED <<last, words, intent>>

\* the same statement while another connection holds the write lock, once the
\* busy timeout is over: sqlite3.OperationalError, the call is over
DatabaseIsLocked(w) ==
    /\ conns[w].pc = "connected"
    /\ lockedBy \notin {None, w}
    /\ conns' = [conns EXCEPT ![w] = Idle(conns[w].died)]
    /\ UNCHANGED <<db, lockedBy, last, words, intent>>

\* cursor.execute(INSERT INTO transactions ...)
InsertTransaction(w) ==
    /\ conns[w].pc = "held"
    /\ conns' = [conns EXCEPT ![w] =
          [pc |-> "logged", args |-> conns[w].args, died |-> conns[w].died,
           view |-> insert_transaction(conns[w].view, conns[w].args.user_id,
                        conns[w].args.symbol, conns[w].args.quantity,
                        conns[w].args.buy_price)]]
    /\ db' = AfterStatement(db, conns'[w].view)
    /\ UNCHANGED <<lockedBy, last, words, intent>>

\* conn.commit()
Commit(w) ==
    /\ conns[w].pc = "logged"
    /\ db' = AfterCommit(db, LogBuy(conns[w].view, conns[w].args.user_id,
                 conns[w].args.symbol, conns[w].args.quantity,
                 conns[w].args.buy_price))
    /\ lockedBy' = None
    /\ conns' = [conns EXCEPT ![w] =
          [pc |-> "committed", args |-> conns[w].args, died |-> conns[w].died]]
    /\ UNCHANGED <<last, words, intent>>

\* conn.close()
Close(w) ==
    /\ conns[w].pc = "committed"
    /\ conns' = [conns EXCEPT ![w] = Idle(conns[w].died)]
    /\ UNCHANGED <<db, lockedBy, last, words, intent>>

\* the worker dies inside the call: its open transaction is rolled back
Crash(w) ==
    /\ conns[w].pc # "idle"
    /\ conns' = [conns EXCEPT ![w] =
                    Idle(conns[w].died \/ conns[w].pc \in {"held", "logged"})]
    /\ lockedBy' = IF lockedBy = w THEN None ELSE lockedBy
    /\ UNCHANGED <<db, last, words, intent>>

NextStore ==
    \E w \in Workers :
        \/ Connect(w)
        \/ InsertHolding(w)
        \/ DatabaseIsLocked(w)
        \/ InsertTransaction(w)
        \/ Commit(w)
        \/ Close(w)
        \/ Crash(w)

SpecStore == InitStore /\ [][NextStore]_vars

(***************************************************************************)
(* The classifier on its own: a text is typed word by word and classified. *)
(***************************************************************************)
MaxWords == 3      \* at most this many words in a text

NLPVocabulary ==
    {w_show, w_portfolio, w_alert, w_me, w_if, w_i, w_bought, w_vs,
     w_AAPL, w_200, w_above, w_xyz, w_x}

NoIntent == [action |-> None]

InitNLP ==
    /\ db = EmptyDb
    /\ last = NoCall
    /\ conns = [w \in Workers |-> Idle(FALSE)]
    /\ lockedBy = None
    /\ words = <<>>
    /\ intent = NoIntent

TypeWord ==
    /\ Len(words) < MaxWords
    /\ \E w \in NLPVocabulary : words' = Append(words, w)
    /\ intent' = NoIntent
    /\ UNCHANGED <<db, last, conns, lockedBy>>

\* intent = nlp.classify_intent(text)
Classify ==
    /\ intent.action = None
    /\ intent' = classify_intent(Join(words))
    /\ UNCHANGED <<db, last, conns, lockedBy, words>>

NextNLP == TypeWord \/ Classify

SpecNLP == InitNLP /\ [][NextNLP]_vars

(***************************************************************************)
(* Properties                                                              *)
(***************************************************************************)
IsChat == last.op = "chat"
ChatIntent == last.ret.intent
ChatResponse == last.ret.response
Has(k) == k \in DOMAIN ChatIntent.entities

\* the /chat call reached the store call of its branch while the store was down
StoreRaised ==
    /\ IsChat
    /\ ~last.up
    /\ ChatIntent.action = "simulate" =>
          last.market[ChatIntent.entities.symbols[1]].kind = "bars"

\* the symbols the /chat call asked the gateway about: simulate_purchase asks
\* about the holdings only once the quote of its own symbol is there
Asked ==
    IF /\ ChatIntent.action = "simulate"
       /\ DOMAIN last.market # {}
       /\ last.market[ChatIntent.entities.symbols[1]].kind # "bars"
    THEN {ChatIntent.entities.symbols[1]}
    ELSE DOMAIN last.market

\* the symbols for which yfinance raised inside get_stock_info during the call
ProviderRaised == {s \in Asked : last.market[s].kind = "raise"}

WellFormedEnvelope ==
    /\ DOMAIN last.ret = {"intent", "response"}
    /\ DOMAIN ChatIntent = {"action", "entities", "confidence"}

ErrorResponse ==
    /\ "error" \in DOMAIN ChatResponse
    /\ ChatResponse.error # <<>>

FetchFailure(s) ==
    [error |-> <<"Error fetching data for ", s, ": ", last.market[s].exception>>]

Guidance ==
    [add_alert |-> "Please specify symbol, price, and condition (above/below)",
     compare_stocks |-> "Please specify at least 2 stock symbols to compare",
     simulate |-> "Please specify symbol and quantity for simulation",
     add_holding |-> "Please specify symbol, quantity, and purchase price",
     stock_price |-> "Please specify a stock symbol"]

\* a required entity of the intent is missing from the extracted entities
MissingEntity ==
    \/ /\ ChatIntent.action = "add_alert"
       /\ ~(Has("symbols") /\ Has("numbers") /\ Has("condition"))
    \/ /\ ChatIntent.action = "compare_stocks"
       /\ ~(Has("symbols") /\ Len(ChatIntent.entities.symbols) >= 2)
    \/ /\ ChatIntent.action = "simulate"
       /\ ~(Has("symbols") /\ Has("numbers"))
    \/ /\ ChatIntent.action = "add_holding"
       /\ \/ ~Has("symbols")
          \/ ~Has("numbers")
          \/ Len(ChatIntent.entities.numbers) < 2
    \/ /\ ChatIntent.action = "stock_price"
       /\ ~Has("symbols")

\* the tables of a store
Tables(d) == <<d.holdings, d.transactions, d.alerts>>

\* C2: whenever a required entity of the intent is missing (for add_holding:
\* no symbol, or fewer than two numbers, no numbers key included), the
\* response of /chat is that intent's guidance message, not an error object,
\* and nothing is written to the store.
C2_MissingEntityGuidance ==
    (IsChat /\ MissingEntity) =>
        /\ ChatResponse = [message |-> Guidance[ChatIntent.action]]
        /\ Tables(db) = Tables(last.before)


SameKey(a, b) == a.user_id = b.user_id /\ a.symbol = b.symbol

\* call k of the history is the most recent add_holding call of its (user, symbol)
MostRecent(k) ==
    \A j \in DOMAIN db.buys : j > k => ~SameKey(db.buys[j], db.buys[k])

\* C3: after any sequence of add-holding operations the store holds at most
\* one Holding per (user_id, symbol), with the quantity and buy_price of the
\* most recent add-holding of that pair; the transactions are exactly one BUY
\* record per add-holding call, in call order, and the records written
\* before the last call are all still there, unchanged.
C3_OneHoldingPerKey ==
    /\ \A i, j \in DOMAIN db.holdings :
          i # j => ~SameKey(db.holdings[i], db.holdings[j])
    /\ \A k \in DOMAIN db.buys :
          MostRecent(k) =>
              \E i \in DOMAIN db.holdings :
                  /\ SameKey(db.holdings[i], db.buys[k])
                  /\ db.holdings[i].quantity = db.buys[k].quantity
                  /\ db.holdings[i].buy_price = db.buys[k].buy_price
    /\ \A i \in DOMAIN db.holdings :
          \E k \in DOMAIN db.buys : SameKey(db.holdings[i], db.buys[k])
    /\ db.transactions =
          [k \in 1..Len(db.buys) |->
              [user_id |-> db.buys[k].user_id, symbol |-> db.buys[k].symbol,
               action |-> "BUY", quantity |-> db.buys[k].quantity,
               price |-> db.buys[k].buy_price]]
    /\ last.op # None =>
          /\ Len(last.before.transactions) <= Len(db.transactions)
          /\ SubSeq(db.transactions, 1, Len(last.before.transactions))
                = last.before.transactions

\* a user bought the same symbol twice, at another quantity and price
C3_Witness ==
    /\ Len(db.buys) = 2
    /\ SameKey(db.buys[1], db.buys[2])
    /\ db.buys[1].quantity # db.buys[2].quantity
    /\ db.buys[1].buy_price # db.buys[2].buy_price
    /\ Len(db.holdings) = 1

\* C4: in every committed state of the store, whatever the interleaving of
\* the add_holding calls and wherever a worker died, every Holding has a BUY
\* Transaction with the same user, symbol, quantity and price.
C4_HoldingHasAuditRecord ==
    \A i \in DOMAIN db.holdings :
        \E k \in DOMAIN db.transactions :
            /\ SameKey(db.transactions[k], db.holdings[i])
            /\ db.transactions[k].action = "BUY"
            /\ db.transactions[k].quantity = db.holdings[i].quantity
            /\ db.transactions[k].price = db.holdings[i].buy_price

\* a worker died with rows written and not committed, holdings are committed,
\* and another worker is between its two INSERTs
C4_Witness ==
    /\ \E w \in Workers : conns[w].died
    /\ db.holdings # <<>>
    /\ \E w \in Workers : conns[w].pc = "held"

AlertMessage == Join(<<w_alert, w_me, w_if, w_AAPL, w_goes, w_above, w_200>>)

\* C5: /chat with "alert me if AAPL goes above 200" (the store being up)
\* leaves a stored Alert with symbol AAPL, condition "above", price 200 and
\* active = true, and get_alerts of that user includes it.
C5_AlertForAAPL ==
    (IsChat /\ last.message = AlertMessage /\ last.up) =>
        /\ \E i \in DOMAIN db.alerts :
              db.alerts[i] = [user_id |-> last.user_id, symbol |-> w_AAPL,
                              condition |-> "above", price |-> 20000, active |-> 1]
        /\ \E i \in DOMAIN get_alerts(db, last.user_id) :
              get_alerts(db, last.user_id)[i] =
                  [symbol |-> w_AAPL, condition |-> "above", price |-> 20000,
                   active |-> TRUE]

\* the text that was classified, and whether classify_intent has returned
Text == Join(words)
Classified_ == intent.action # None

\* the table entries of which some pattern matches the lower-cased text
Matching(text) ==
    {t \in DOMAIN intent_patterns :
        \E p \in DOMAIN intent_patterns[t].patterns :
            re_search(intent_patterns[t].patterns[p], str_lower(text))}

\* what the fallback rule promises for a text that matches no pattern:
\* stock_price at confidence 0.5, the entities those of the extractor on the
\* original text, no key with an empty value
FallbackIntent ==
    /\ intent.action = "stock_price"
    /\ intent.confidence = 5
    /\ intent.entities = extract_entities(Text)
    /\ DOMAIN intent.entities \subseteq {"symbols", "numbers", "condition"}
    /\ \A k \in DOMAIN intent.entities \cap {"symbols", "numbers"} :
          intent.entities[k] # <<>>
    /\ "symbols" \in DOMAIN intent.entities <=>
          \E i \in 1..Len(Text) : SymbolAt(str_upper(Text), i) > 0
    /\ "numbers" \in DOMAIN intent.entities <=>
          \E i \in 1..Len(Text) : Text[i] \in DigitSet
    /\ "condition" \in DOMAIN intent.entities <=>
          \E j \in 1..3 : \/ Contains(str_lower(Text), kw_above[j])
                           \/ Contains(str_lower(Text), kw_below[j])

First(S) == CHOOSE t \in S : \A u \in S : t <= u

\* C7: the intents are tried in the order show_portfolio, add_alert,
\* compare_stocks, simulate, add_holding, stock_price, and the first intent
\* with any matching pattern is returned with confidence 0.8; a text that
\* matches a show_portfolio pattern is classified show_portfolio whatever
\* else it matches.
C7_FirstMatchingIntent ==
    /\ [t \in DOMAIN intent_patterns |-> intent_patterns[t].intent] =
          <<"show_portfolio", "add_alert", "compare_stocks", "simulate",
            "add_holding", "stock_price">>
    /\ (Classified_ /\ Matching(Text) # {}) =>
          /\ intent.action = intent_patterns[First(Matching(Text))].intent
          /\ intent.confidence = 8
    /\ (Classified_ /\ 1 \in Matching(Text)) =>
          /\ intent.action = "show_portfolio"
          /\ intent.confidence = 8

\* a text that matches a show_portfolio pattern and a pattern of a later intent
C7_Witness ==
    /\ Classified_
    /\ 1 \in Matching(Text)
    /\ Cardinality(Matching(Text)) >= 2
    /\ intent.action = "show_portfolio"

\* the last call was /chat in the simulate branch with its entities validated,
\* which is simulate_purchase(user_id, symbols[0], numbers[0])
IsSimulate ==
    /\ IsChat
    /\ ChatIntent.action = "simulate"
    /\ Has("symbols") /\ Has("numbers")

SimulatedSymbol == ChatIntent.entities.symbols[1]

\* the lookup of symbol s failed during the last call
LookupFailed(s) == "error" \in DOMAIN get_stock_info(s, last.market[s])

\* C8: simulate_purchase leaves holdings, alerts and transactions unchanged
\* in every case, and when the quote lookup of its symbol fails its result
\* is the gateway's failure object, unchanged, whatever the user holds.
C8_SimulateIsPure ==
    IsSimulate =>
        /\ Tables(db) = Tables(last.before)
        /\ LookupFailed(SimulatedSymbol) =>
              /\ last.caught = None
              /\ ChatResponse = get_stock_info(SimulatedSymbol,
                                               last.market[SimulatedSymbol])
              /\ DOMAIN ChatResponse = {"error"}

\* a simulation for a user with holdings, the quote lookup having failed
C8_Witness ==
    /\ IsSimulate
    /\ LookupFailed(SimulatedSymbol)
    /\ get_portfolio(db, last.user_id) # <<>>
    /\ "error" \in DOMAIN ChatResponse

\* the last call was calculate_portfolio_value(user_id) with the store up:
\* GET /portfolio/{user_id}, or /chat in the show_portfolio branch
IsValuation ==
    /\ \/ last.op = "get_portfolio"
       \/ IsChat /\ ChatIntent.action = "show_portfolio"
    /\ last.up

ValuationUser == IF last.op = "get_portfolio" THEN last.arg ELSE last.user_id
ValuationResult == IF last.op = "get_portfolio" THEN last.ret.ret ELSE ChatResponse

\* the holdings of hs whose quote lookup succeeded, in their order
RECURSIVE Priced(_)
Priced(hs) ==
    IF hs = <<>> THEN <<>>
    ELSE IF LookupFailed(hs[1].symbol) THEN Priced(Tail(hs))
    ELSE <<hs[1]>> \o Priced(Tail(hs))

\* the current price of the quote of symbol s, in hundredths
PriceOf(s) == get_stock_info(s, last.market[s]).current_price

RECURSIVE SumValue(_)
SumValue(hs) ==
    IF hs = <<>> THEN 0
    ELSE hs[1].quantity * PriceOf(hs[1].symbol) + SumValue(Tail(hs))

RECURSIVE SumCost(_)
SumCost(hs) ==
    IF hs = <<>> THEN 0
    ELSE hs[1].quantity * hs[1].buy_price + SumCost(Tail(hs))

\* C9: portfolio_value returns the empty-portfolio message (no totals) when
\* the user has no holdings; otherwise a report whose detail list holds
\* exactly the holdings whose quote lookup succeeded and whose total_value
\* and total_cost are the sums of quantity x current_price and quantity x
\* buy_price over exactly those holdings (rounded to 2 decimals on output),
\* the holdings with a failed lookup left out of list and totals.
C9_ValuationSkipsFailedLookups ==
    IsValuation =>
        IF get_portfolio(db, ValuationUser) = <<>>
        THEN ValuationResult = [message |-> "No holdings found in portfolio"]
        ELSE /\ {"total_value", "total_cost", "holdings"} \subseteq DOMAIN ValuationResult
             /\ [i \in DOMAIN ValuationResult.holdings |->
                    [symbol |-> ValuationResult.holdings[i].symbol,
                     quantity |-> ValuationResult.holdings[i].quantity,
                     buy_price |-> ValuationResult.holdings[i].buy_price]]
                  = Priced(get_portfolio(db, ValuationUser))
             /\ ValuationResult.total_value =
                    Round2(SumValue(Priced(get_portfolio(db, ValuationUser))))
             /\ ValuationResult.total_cost =
                    Round2(SumCost(Priced(get_portfolio(db, ValuationUser))))

\* a valuation of two holdings, one priced and one whose lookup failed
C9_Witness ==
    /\ IsValuation
    /\ Len(get_portfolio(db, ValuationUser)) = 2
    /\ Len(Priced(get_portfolio(db, ValuationUser))) = 1
    /\ Len(ValuationResult.holdings) = 1
    /\ ValuationResult.total_value > 0

\* the alerts the add_alert calls of user_id asked for, in call order
RECURSIVE AlertsAsked(_, _)
AlertsAsked(calls, user_id) ==
    IF calls = <<>> THEN <<>>
    ELSE IF calls[1].user_id = user_id
    THEN <<[symbol |-> calls[1].symbol, condition |-> calls[1].condition,
            price |-> calls[1].price, active |-> TRUE]>>
         \o AlertsAsked(Tail(calls), user_id)
    ELSE AlertsAsked(Tail(calls), user_id)

\* C10: alerts have no uniqueness constraint and are never deactivated:
\* after any sequence of operations get_active_alerts(user_id) returns one
\* active alert for every add-alert ever performed for that user (several
\* for the same symbol, condition and price included), and none created
\* for another user.
C10_EveryAlertStaysActive ==
    \A user_id \in Users :
        get_alerts(db, user_id) = AlertsAsked(db.alertCalls, user_id)

\* a user asked twice for the same alert, another user asked for none
C10_Witness ==
    \E u, v \in Users :
        /\ u # v
        /\ Len(get_alerts(db, u)) = 2
        /\ get_alerts(db, u)[1] = get_alerts(db, u)[2]
        /\ get_alerts(db, v) = <<>>
        /\ Len(db.alerts) = 2

\* the last call was a read-only route
IsQuery == last.op \in {"get_portfolio", "get_alerts", "get_stock_info"}

\* the last /chat call took the add_holding branch with its entities
\* validated and the store answered
HoldingAdded ==
    /\ IsChat
    /\ ChatIntent.action = "add_holding"
    /\ Has("symbols") /\ Has("numbers")
    /\ Len(ChatIntent.entities.numbers) >= 2
    /\ last.up

\* the last /chat call took the add_alert branch with its entities validated
\* and the store answered
AlertAdded ==
    /\ IsChat
    /\ ChatIntent.action = "add_alert"
    /\ Has("symbols") /\ Has("numbers") /\ Has("condition")
    /\ last.up

\* the holdings of rows other than the one of (user_id, symbol), in order
OtherHoldings(rows, user_id, symbol) ==
    SelectSeq(rows, LAMBDA h : ~(h.user_id = user_id /\ h.symbol = symbol))

\* the holdings of rows of (user_id, symbol)
HoldingsOf(rows, user_id, symbol) ==
    SelectSeq(rows, LAMBDA h : h.user_id = user_id /\ h.symbol = symbol)

\* C11: a /chat call for user u changes the store only in two branches and
\* only for u: add_holding with validated entities changes the Holding of
\* (u, symbols[0]) and appends one Transaction of u, the alerts unchanged;
\* add_alert with validated entities appends one Alert of u, holdings and
\* transactions unchanged; every other branch, every validation failure and
\* the read-only queries leave the holdings, alerts and transactions of
\* every user unchanged.
C11_ChatFrame ==
    /\ IsQuery => Tables(db) = Tables(last.before)
    /\ IsChat =>
        IF HoldingAdded
        THEN /\ OtherHoldings(db.holdings, last.user_id, ChatIntent.entities.symbols[1])
                  = OtherHoldings(last.before.holdings, last.user_id,
                                  ChatIntent.entities.symbols[1])
             /\ HoldingsOf(db.holdings, last.user_id, ChatIntent.entities.symbols[1])
                  = <<[user_id |-> last.user_id,
                       symbol |-> ChatIntent.entities.symbols[1],
                       quantity |-> ChatIntent.entities.numbers[1],
                       buy_price |-> ChatIntent.entities.numbers[2]]>>
             /\ Len(db.transactions) = Len(last.before.transactions) + 1
             /\ SubSeq(db.transactions, 1, Len(last.before.transactions))
                  = last.before.transactions
             /\ db.transactions[Len(db.transactions)].user_id = last.user_id
             /\ db.alerts = last.before.alerts
        ELSE IF AlertAdded
        THEN /\ Len(db.alerts) = Len(last.before.alerts) + 1
             /\ SubSeq(db.alerts, 1, Len(last.before.alerts)) = last.before.alerts
             /\ db.alerts[Len(db.alerts)].user_id = last.user_id
             /\ db.holdings = last.before.holdings
             /\ db.transactions = last.before.transactions
        ELSE Tables(db) = Tables(last.before)

\* a user bought a symbol that another user holds, and the other user's
\* holding is still there
C11_Witness ==
    /\ HoldingAdded
    /\ \E i \in DOMAIN last.before.holdings :
          /\ last.before.holdings[i].user_id # last.user_id
          /\ last.before.holdings[i].symbol = ChatIntent.entities.symbols[1]
          /\ \E j \in DOMAIN db.holdings : db.holdings[j] = last.before.holdings[i]
    /\ \E i \in DOMAIN db.holdings : db.holdings[i].user_id = last.user_id

====
